---------------------------- MODULE Spec2Model ----------------------------
(* A model of the brainfuck interpreter bfi (src/src/main.rs): the lexer,  *)
(* the recursive bracket-matching parser and the tree-walking executor.    *)
(* A source character is a one-character string, a Token is the name of    *)
(* its enum variant, an Instruction is a record [op, body] (body is the    *)
(* child sequence of a Loop and empty for the six leaf instructions).      *)
EXTENDS Integers, Sequences, FiniteSets, TLC

VARIABLES
    source,          \* the text of the source file (main, line 166)
    tokens,          \* Vec<Token> returned by lexer (main, line 168)
    instructions,    \* Vec<Instruction> returned by parser (main, line 169)
    tape,            \* Vec<u8>: its length and its nonzero cells
    data_pointer,    \* usize cursor, 0 until main declares it (line 172)
    stack,           \* the active calls of run, innermost last
    stdin,           \* the bytes standard input will supply
    stdin_pos,       \* how many of them have been consumed
    stdout,          \* the characters printed so far, as character codes
    pc,              \* "lexer", "parser", "main", "run", "done", "panic"
    panic,           \* the panic that ended the process, NoPanic otherwise
    overflow_checks, \* the build profile: debug (TRUE) or release (FALSE)
    stdin_open       \* TRUE: the stream stays open and silent after the
                     \* bytes of stdin; FALSE: it ends after them

vars == << source, tokens, instructions, tape, data_pointer, stack,
           stdin, stdin_pos, stdout, pc, panic, overflow_checks,
           stdin_open >>

----------------------------------------------------------------------------
(* Program constants.                                                      *)

TapeLen == 24576

InitialPointer == 12288

\* usize::MAX, 2^64 - 1.  A usize is held as the two's-complement integer
\* with the same bits (2^64 - 1 is -1), since 2^64 - 1 itself is beyond the
\* integers TLC computes with; the cursor stays within 2^31 of zero.
UsizeMax == -1

U8Mod == 256

(* Bounds of the model.                                                    *)

MaxSrcLen == 2

MaxStdinLen == 2

MaxParseLen == 7

MaxEdgeLen == 2

MaxEdgeStdinLen == 1

----------------------------------------------------------------------------
(* Inputs.                                                                 *)

SeqsUpTo(S, n) == UNION { [1..k -> S] : k \in 0..n }

Recognized == { ">", "<", "+", "-", ".", ",", "[", "]" }

\* "#" stands for every character that is not one of the eight.
Alphabet == Recognized \cup { "#" }

InputBytes == { 0, 65, 255 }

\* End-to-end scenario 1 of the specification.
Scenario1 ==
  << "+", "+", "+", "+", "+", "+", "+", "+", "[", ">", "+", "+", "+",
     "+", "[", ">", "+", "+", ">", "+", "+", "+", ">", "+", "+", "+",
     ">", "+", "<", "<", "<", "<", "-", "]", ">", "+", ">", "+", ">",
     "-", ">", ">", "+", "[", "<", "]", "<", "-", "]", ">", ">", "." >>

\* Longer sources whose loops run: bodies entered, left, nested, faulting.
LoopSources ==
  { << "+", "[", "-", "]" >>,
    << "-", "[", "+", "]" >>,
    << "+", "[", "]" >>,
    << "[", "+", "]" >>,
    << ",", "[", ".", ",", "]" >>,
    << ",", "[", "-", "]", "." >>,
    << "+", "[", "[", "-", "]", "]", "." >>,
    << "+", "[", ">", "]", "+", "." >>,
    << "+", ".", "]" >>,
    << "+", ".", "[" >>,
    << ",", ".", ",", "." >>,
    << ",", "-", ".", "," >>,
    << "+", ".", ",", "." >> }

\* Sources with characters that are not instructions, and loops that
\* never end.
CommentSources ==
  { << "#", "#", "#" >>,
    << "#", "+", "#", ".", "#" >>,
    << "#", ">", "<", "#", "-", ".", "," >>,
    << "+", "[", ">", "+", "<", "]" >>,
    << "+", ",", "[", "]" >> }

Sources ==
    SeqsUpTo(Alphabet, MaxSrcLen) \cup LoopSources \cup CommentSources
        \cup { Scenario1 }

\* The sources of the parsing runs: longer, over fewer characters.
ParseAlphabet == { "+", "#", "[", "]" }

ParseSources == SeqsUpTo(ParseAlphabet, MaxParseLen)

\* The sources of the runs that start at an end of the tape.
EdgeLoopSources ==
  { << ">", "[", "]" >>,
    << "<", "[", "]" >>,
    << ">", "<", "+", "." >>,
    << "<", ">", "+", "." >>,
    << "+", ".", ">", "." >>,
    << "+", ".", "<", "." >> }

EdgeSources == SeqsUpTo(Recognized, MaxEdgeLen) \cup EdgeLoopSources

----------------------------------------------------------------------------
(* impl TryFrom<char> for Token, and lexer.                                *)

\* A lexer that takes `,` for `.`.
TokenOf_CommaAsOutput(symbol) ==
    CASE symbol = ">" -> "IncrementPointer"
      [] symbol = "<" -> "DecrementPointer"
      [] symbol = "+" -> "Increment"
      [] symbol = "-" -> "Decrement"
      [] symbol = "." -> "Output"
      [] symbol = "," -> "Output"
      [] symbol = "[" -> "LoopOpen"
      [] symbol = "]" -> "LoopClose"
      [] OTHER        -> "Err"

TokenOf(symbol) ==
    CASE symbol = ">" -> "IncrementPointer"
      [] symbol = "<" -> "DecrementPointer"
      [] symbol = "+" -> "Increment"
      [] symbol = "-" -> "Decrement"
      [] symbol = "." -> "Output"
      [] symbol = "," -> "Input"
      [] symbol = "[" -> "LoopOpen"
      [] symbol = "]" -> "LoopClose"
      [] OTHER        -> "Err"

\* A lexer that takes `+` for a comment.
IsToken_DropsPlus(symbol) == TokenOf(symbol) # "Err" /\ symbol # "+"

\* The for loop of lines 49-54: the characters that convert, in source
\* order, each as its token.
IsToken(symbol) == TokenOf(symbol) # "Err"

lexer(src) ==
    LET kept == SelectSeq(src, IsToken)
    IN  [k \in 1..Len(kept) |-> TokenOf(kept[k])]

----------------------------------------------------------------------------
(* impl TryFrom<Token> for Instruction, and parser.                        *)

Leaf(name) == [op |-> name, body |-> << >>]

Loop(children) == [op |-> "Loop", body |-> children]

\* Only called on the six non-bracket tokens (the match arms of lines
\* 103-107 take the brackets), so the unwrap of line 108 never fails.
InstructionOf(token) == Leaf(token)

NoPanic == [msg |-> "", at |-> 0]

NoBeginning == "loop ending has no beginning"

NoEnding == "loop that starts has no ending"

\* The locals of one call of parser, and the panic that ended it if any.
\* Two history fields record the recursion of line 117: spans, the token
\* slices this call and the calls below it handed to parser, and nested,
\* whether the panic was raised inside one of those calls.
ParserLocals(instrs, depth, start, p) ==
    [instructions |-> instrs, loop_stack |-> depth, loop_start |-> start,
     panic |-> p, spans |-> {}, nested |-> FALSE]

\* A message that counts tokens from one.
Panicked_OneBased(m, i) == [msg |-> m, at |-> i + 1]

\* panic!("... {i} ..."): the message and the index it names.
Panicked(m, i) == [msg |-> m, at |-> i]

\* A span that loses the last token before the closing bracket.
LoopSpan_DropsLast(toks, loop_start, i) == SubSeq(toks, loop_start + 2, i - 1)

\* A span that begins at the opening bracket itself.
LoopSpan_KeepsOpen(toks, loop_start, i) == SubSeq(toks, loop_start + 1, i)

\* The span handed to the recursive call: tokens[loop_start + 1..i]
\* (0-based, end exclusive) is SubSeq(toks, loop_start + 2, i) 1-based.
LoopSpan(toks, loop_start, i) == SubSeq(toks, loop_start + 2, i)

\* A parser that leaves out the check after the for loop.
ParserEnd_NoCheck(st) == st

\* The check after the for loop (lines 126-128).
ParserEnd(st) ==
    IF st.loop_stack # 0
    THEN [st EXCEPT !.panic = Panicked(NoEnding, st.loop_start)]
    ELSE st

\* A parser that skips a closing bracket met at depth zero.
UnmatchedClose_Ignored(st, i) == st

\* Token::LoopClose at depth zero (line 107).
UnmatchedClose(st, i) == [st EXCEPT !.panic = Panicked(NoBeginning, i)]

RECURSIVE parserCall(_)

\* The body of the for loop (lines 101-123) at 0-based index i.
\* loop_stack is an i32 and only overflows on 2^31 nested brackets, beyond
\* every bound used here.
ParserBody(toks, i, st) ==
    LET token == toks[i + 1] IN
    IF st.loop_stack = 0
    THEN CASE token = "LoopOpen" ->
                [st EXCEPT !.loop_start = i, !.loop_stack = @ + 1]
           [] token = "LoopClose" -> UnmatchedClose(st, i)
           [] OTHER ->
                [st EXCEPT !.instructions = Append(@, InstructionOf(token))]
    ELSE CASE token = "LoopOpen" -> [st EXCEPT !.loop_stack = @ + 1]
           [] token = "LoopClose" ->
                IF st.loop_stack - 1 = 0
                THEN LET span == LoopSpan(toks, st.loop_start, i)
                         inner == parserCall(span)
                         seen == st.spans \cup {span} \cup inner.spans
                     IN  IF inner.panic # NoPanic
                         THEN [st EXCEPT !.loop_stack = 0,
                                         !.panic = inner.panic,
                                         !.spans = seen,
                                         !.nested = TRUE]
                         ELSE [st EXCEPT !.loop_stack = 0,
                                         !.instructions =
                                            Append(@, Loop(inner.instructions)),
                                         !.spans = seen]
                ELSE [st EXCEPT !.loop_stack = @ - 1]
           [] OTHER -> st

RECURSIVE parserFor(_, _, _)

\* The for loop of line 100 from index i on; a panic leaves it.
parserFor(toks, i, st) ==
    IF st.panic # NoPanic \/ i = Len(toks) THEN st
    ELSE parserFor(toks, i + 1, ParserBody(toks, i, st))

\* One call of parser: its locals when it returns or panics.
parserCall(toks) ==
    LET st == parserFor(toks, 0, ParserLocals(<< >>, 0, 0, NoPanic))
    IN  IF st.panic # NoPanic THEN st ELSE ParserEnd(st)

\* parser's outcome: the instructions it returns, or its panic.
parser(toks) ==
    LET st == parserCall(toks)
    IN  [ok |-> st.panic = NoPanic,
         instructions |-> IF st.panic = NoPanic THEN st.instructions
                          ELSE << >>,
         panic |-> st.panic]

----------------------------------------------------------------------------
(* The process: main.                                                      *)

Frame(instrs) == [instructions |-> instrs, ip |-> 1]

\* The tape before main allocates it (line 171): no cell to index.
NoTape == [len |-> 0, cells |-> << >>]

\* A tape of half the size, ending where the cursor starts.
ZeroTape_Short == [len |-> InitialPointer, cells |-> << >>]

\* vec![0; 24576]
ZeroTape == [len |-> TapeLen, cells |-> << >>]

Init ==
    /\ source \in Sources
    /\ stdin \in SeqsUpTo(InputBytes, MaxStdinLen)
    /\ overflow_checks \in BOOLEAN
    /\ stdin_open \in BOOLEAN
    /\ tokens = << >>
    /\ instructions = << >>
    /\ tape = NoTape
    /\ data_pointer = 0
    /\ stack = << >>
    /\ stdin_pos = 0
    /\ stdout = << >>
    /\ pc = "lexer"
    /\ panic = NoPanic

\* let tokens = lexer(source);
Lexer ==
    /\ pc = "lexer"
    /\ tokens' = lexer(source)
    /\ pc' = "parser"
    /\ UNCHANGED << source, instructions, tape, data_pointer, stack, stdin,
                    stdin_pos, stdout, panic, overflow_checks,
                    stdin_open >>

\* let instructions = parser(tokens);
Parser ==
    /\ pc = "parser"
    /\ LET r == parser(tokens) IN
         IF r.ok
         THEN /\ instructions' = r.instructions
              /\ pc' = "main"
              /\ panic' = panic
         ELSE /\ instructions' = instructions
              /\ pc' = "panic"
              /\ panic' = r.panic
    /\ UNCHANGED << source, tokens, tape, data_pointer, stack, stdin,
                    stdin_pos, stdout, overflow_checks,
                    stdin_open >>

\* Lines 171-174: the tape, the cursor and the call of run.
Main ==
    /\ pc = "main"
    /\ tape' = ZeroTape
    /\ data_pointer' = InitialPointer
    /\ stack' = << Frame(instructions) >>
    /\ pc' = "run"
    /\ UNCHANGED << source, tokens, instructions, stdin, stdin_pos, stdout,
                    panic, overflow_checks,
                    stdin_open >>

----------------------------------------------------------------------------
(* run: one step per executed instruction.  A call of run is a frame       *)
(* [instructions, ip]: ip is the 1-based position of the for loop of line  *)
(* 134; the recursive call of line 150 pushes a frame, the end of the for  *)
(* loop pops it.                                                           *)

Top == stack[Len(stack)]

Running == pc = "run" /\ stack # << >>

AtInstruction == Top.ip <= Len(Top.instructions)

Cur == Top.instructions[Top.ip]

Executing(name) == Running /\ AtInstruction /\ Cur.op = name

\* The for loop moves on to the next instruction of the innermost call.
Advance == stack' = [stack EXCEPT ![Len(stack)].ip = @ + 1]

Abort(m, i) ==
    /\ pc' = "panic"
    /\ panic' = [msg |-> m, at |-> i]

\* tape[*data_pointer]: Vec indexing panics unless index < len (as a usize:
\* the negative integers stand for the indices from 2^63 up).
InBounds(p) == 0 <= p /\ p < tape.len

\* tape[i], for i in bounds.
Cell(t, i) == IF i \in DOMAIN t.cells THEN t.cells[i] ELSE 0

\* tape[i] = v, for i in bounds.
Store(t, i, v) ==
    LET kept == IF v = 0 THEN DOMAIN t.cells \ { i }
                ELSE DOMAIN t.cells \cup { i }
    IN  [t EXCEPT !.cells = [j \in kept |-> IF j = i THEN v ELSE t.cells[j]]]

IndexOutOfBounds == "index out of bounds"

AddOverflow == "attempt to add with overflow"

SubOverflow == "attempt to subtract with overflow"

ReadFailed == "failed to read stdin"

\* An increment that stops at 255.
WrappingAdd_Saturating(v) == IF v = U8Mod - 1 THEN v ELSE v + 1

\* u8::wrapping_add(1) and u8::wrapping_sub(1).
WrappingAdd(v) == (v + 1) % U8Mod

WrappingSub(v) == (v - 1) % U8Mod

\* A loop that runs its body once before it tests the cell (do-while).
LoopCondition_Always(v) == TRUE

\* The condition of the while of line 149.
\* A loop whose body is never entered.
LoopCondition_Never(v) == FALSE

LoopCondition(v) == v # 0

\* usize += 1 and usize -= 1: a panic with overflow checks (debug
\* profile), two's-complement wrapping without (release profile).
PointerAddOverflows(p) == p = UsizeMax

PointerSubOverflows(p) == p = 0

PointerAdd(p) == IF PointerAddOverflows(p) THEN 0 ELSE p + 1

\* A decrement that steps over a cell.
PointerSub_ByTwo(p) == p - 2

PointerSub(p) == IF PointerSubOverflows(p) THEN UsizeMax ELSE p - 1

\* Instruction::IncrementPointer => *data_pointer += 1
IncrementPointer ==
    /\ Executing("IncrementPointer")
    /\ IF PointerAddOverflows(data_pointer) /\ overflow_checks
       THEN /\ Abort(AddOverflow, data_pointer)
            /\ UNCHANGED << data_pointer, stack >>
       ELSE /\ data_pointer' = PointerAdd(data_pointer)
            /\ Advance
            /\ UNCHANGED << pc, panic >>
    /\ UNCHANGED << source, tokens, instructions, tape, stdin, stdin_pos,
                    stdout, overflow_checks,
                    stdin_open >>

\* Instruction::DecrementPointer => *data_pointer -= 1
DecrementPointer ==
    /\ Executing("DecrementPointer")
    /\ IF PointerSubOverflows(data_pointer) /\ overflow_checks
       THEN /\ Abort(SubOverflow, data_pointer)
            /\ UNCHANGED << data_pointer, stack >>
       ELSE /\ data_pointer' = PointerSub(data_pointer)
            /\ Advance
            /\ UNCHANGED << pc, panic >>
    /\ UNCHANGED << source, tokens, instructions, tape, stdin, stdin_pos,
                    stdout, overflow_checks,
                    stdin_open >>

\* Instruction::Increment => tape[dp] = tape[dp].wrapping_add(1)
Increment ==
    /\ Executing("Increment")
    /\ IF InBounds(data_pointer)
       THEN /\ tape' = Store(tape, data_pointer,
                               WrappingAdd(Cell(tape, data_pointer)))
            /\ Advance
            /\ UNCHANGED << pc, panic >>
       ELSE /\ Abort(IndexOutOfBounds, data_pointer)
            /\ UNCHANGED << tape, stack >>
    /\ UNCHANGED << source, tokens, instructions, data_pointer, stdin,
                    stdin_pos, stdout, overflow_checks,
                    stdin_open >>

\* Instruction::Decrement => tape[dp] = tape[dp].wrapping_sub(1)
Decrement ==
    /\ Executing("Decrement")
    /\ IF InBounds(data_pointer)
       THEN /\ tape' = Store(tape, data_pointer,
                               WrappingSub(Cell(tape, data_pointer)))
            /\ Advance
            /\ UNCHANGED << pc, panic >>
       ELSE /\ Abort(IndexOutOfBounds, data_pointer)
            /\ UNCHANGED << tape, stack >>
    /\ UNCHANGED << source, tokens, instructions, data_pointer, stdin,
                    stdin_pos, stdout, overflow_checks,
                    stdin_open >>

\* A cast that keeps the low seven bits only.
AsChar_SevenBit(v) == v % 128

\* `byte as char`: the character whose code point is the byte's value.
AsChar(v) == v

\* Instruction::Output => print!("{}", tape[dp] as char)
Output ==
    /\ Executing("Output")
    /\ IF InBounds(data_pointer)
       THEN /\ stdout' = Append(stdout, AsChar(Cell(tape, data_pointer)))
            /\ Advance
            /\ UNCHANGED << pc, panic >>
       ELSE /\ Abort(IndexOutOfBounds, data_pointer)
            /\ UNCHANGED << stdout, stack >>
    /\ UNCHANGED << source, tokens, instructions, tape, data_pointer, stdin,
                    stdin_pos, overflow_checks,
                    stdin_open >>

\* A read that hands out the first byte of the stream again and again.
ReadExact_Rereads(pos) ==
    IF pos < Len(stdin) THEN [ok |-> TRUE, byte |-> stdin[1]]
    ELSE [ok |-> FALSE, byte |-> 0]

\* A read that yields the buffer's initial 0 at the end of the stream.
ReadExact_ZeroAtEof(pos) ==
    IF pos < Len(stdin) THEN [ok |-> TRUE, byte |-> stdin[pos + 1]]
    ELSE [ok |-> TRUE, byte |-> 0]

\* read_exact waits until the stream yields a byte or ends: on a stream
\* that stays open with nothing more to read, the call never returns.
Blocked(pos) == pos >= Len(stdin) /\ stdin_open

\* io::stdin().read_exact(&mut input) on a one-byte buffer: the first
\* unread byte, or an error at the end of the stream.
ReadExact(pos) ==
    IF pos < Len(stdin) THEN [ok |-> TRUE, byte |-> stdin[pos + 1]]
    ELSE [ok |-> FALSE, byte |-> 0]

\* Instruction::Input: read_exact of one byte, expect, then the store of
\* line 146 (the byte is consumed before the cell is indexed).
Input ==
    /\ Executing("Input")
    /\ ~Blocked(stdin_pos)
    /\ LET input == ReadExact(stdin_pos) IN
       IF input.ok
       THEN /\ stdin_pos' = stdin_pos + 1
            /\ IF InBounds(data_pointer)
               THEN /\ tape' = Store(tape, data_pointer, input.byte)
                    /\ Advance
                    /\ UNCHANGED << pc, panic >>
               ELSE /\ Abort(IndexOutOfBounds, data_pointer)
                    /\ UNCHANGED << tape, stack >>
       ELSE /\ Abort(ReadFailed, stdin_pos)
            /\ UNCHANGED << tape, stack, stdin_pos >>
    /\ UNCHANGED << source, tokens, instructions, data_pointer, stdin,
                    stdout, overflow_checks,
                    stdin_open >>

\* Instruction::Loop: one evaluation of the while condition of line 149;
\* true calls run on the body (line 150), false leaves the loop.
LoopTest ==
    /\ Executing("Loop")
    /\ IF InBounds(data_pointer)
       THEN /\ IF LoopCondition(Cell(tape, data_pointer))
               THEN stack' = Append(stack, Frame(Cur.body))
               ELSE Advance
            /\ UNCHANGED << pc, panic >>
       ELSE /\ Abort(IndexOutOfBounds, data_pointer)
            /\ UNCHANGED stack
    /\ UNCHANGED << source, tokens, instructions, tape, data_pointer, stdin,
                    stdin_pos, stdout, overflow_checks,
                    stdin_open >>

\* A run whose loop is an `if`: the body's return leaves the loop.
Return_NoRetest ==
    /\ Running
    /\ ~AtInstruction
    /\ stack' = IF Len(stack) = 1 THEN << >>
                ELSE [SubSeq(stack, 1, Len(stack) - 1)
                        EXCEPT ![Len(stack) - 1].ip = @ + 1]
    /\ pc' = IF Len(stack) = 1 THEN "done" ELSE pc
    /\ UNCHANGED << source, tokens, instructions, tape, data_pointer, stdin,
                    stdin_pos, stdout, panic, overflow_checks,
                    stdin_open >>

\* The for loop of line 134 is exhausted: run returns, to the while of its
\* caller or, for the outermost call, to main, which returns too.
Return ==
    /\ Running
    /\ ~AtInstruction
    /\ stack' = SubSeq(stack, 1, Len(stack) - 1)
    /\ pc' = IF Len(stack) = 1 THEN "done" ELSE pc
    /\ UNCHANGED << source, tokens, instructions, tape, data_pointer, stdin,
                    stdin_pos, stdout, panic, overflow_checks,
                    stdin_open >>

\* The steps of run.
Run ==
    \/ IncrementPointer
    \/ DecrementPointer
    \/ Increment
    \/ Decrement
    \/ Output
    \/ Input
    \/ LoopTest
    \/ Return

Next == Lexer \/ Parser \/ Main \/ Run

Spec == Init /\ [][Next]_vars

\* The process is a single thread that runs until it returns or panics:
\* run, once called, does not stop between two instructions.
FairSpec == Spec /\ WF_vars(Run)

----------------------------------------------------------------------------
(* Parsing alone: lexer and parser on every source of ParseSources.        *)

InitParse ==
    /\ source \in ParseSources
    /\ stdin = << >>
    /\ overflow_checks \in BOOLEAN
    /\ stdin_open = FALSE
    /\ tokens = << >>
    /\ instructions = << >>
    /\ tape = NoTape
    /\ data_pointer = 0
    /\ stack = << >>
    /\ stdin_pos = 0
    /\ stdout = << >>
    /\ pc = "lexer"
    /\ panic = NoPanic

NextParse == Lexer \/ Parser

SpecParse == InitParse /\ [][NextParse]_vars

----------------------------------------------------------------------------
(* run at the ends of the tape.  Pointer moves change data_pointer alone   *)
(* (lines 136-137), so a program that begins with 12288 `<` or 12287 `>`   *)
(* brings run to a state with the tape still zero and the cursor at index  *)
(* 0 or 24575; `source` is the rest of that program, which run goes on to  *)
(* execute from there.                                                     *)

EdgePointers == { 0, TapeLen - 1 }

InitEdge ==
    /\ source \in EdgeSources
    /\ parser(lexer(source)).ok
    /\ tokens = lexer(source)
    /\ instructions = parser(tokens).instructions
    /\ stdin \in SeqsUpTo(InputBytes, MaxEdgeStdinLen)
    /\ overflow_checks \in BOOLEAN
    /\ stdin_open \in BOOLEAN
    /\ tape = ZeroTape
    /\ data_pointer \in EdgePointers
    /\ stack = << Frame(instructions) >>
    /\ stdin_pos = 0
    /\ stdout = << >>
    /\ pc = "run"
    /\ panic = NoPanic

SpecEdge == InitEdge /\ [][Run]_vars

----------------------------------------------------------------------------
(* Every run above: the process from its start, and run at the ends of    *)
(* the tape.                                                               *)

InitAny == Init \/ InitEdge

SpecAny == InitAny /\ [][Next]_vars

----------------------------------------------------------------------------
(* The vocabulary of the claims: bracket balance, stated on the token      *)
(* sequence without reference to the parser, and the shape of a tree.      *)

Opens(toks, k) == Cardinality({ j \in 1..k : toks[j] = "LoopOpen" })

Closes(toks, k) == Cardinality({ j \in 1..k : toks[j] = "LoopClose" })

\* The nesting depth after the first k tokens.
Depth(toks, k) == Opens(toks, k) - Closes(toks, k)

\* Some `]` has no earlier `[` to match.
HasUnmatchedClose(toks) == \E k \in 1..Len(toks) : Depth(toks, k) < 0

\* The `[` at position k has no later `]` that matches it.
UnmatchedOpenAt(toks, k) ==
    /\ toks[k] = "LoopOpen"
    /\ \A j \in k..Len(toks) : Depth(toks, j) > Depth(toks, k - 1)

HasUnmatchedOpen(toks) == \E k \in 1..Len(toks) : UnmatchedOpenAt(toks, k)

Balanced(toks) ==
    /\ \A k \in 1..Len(toks) : Depth(toks, k) >= 0
    /\ Depth(toks, Len(toks)) = 0

LeafOps ==
    { "IncrementPointer", "DecrementPointer", "Increment", "Decrement",
      "Output", "Input" }

RECURSIVE Flatten(_)
\* The tokens of an instruction sequence: a leaf is its own token, a Loop
\* is `[`, its flattened body, `]`.
Flatten(instrs) ==
    IF instrs = << >> THEN << >>
    ELSE LET head == instrs[1] IN
         (IF head.op = "Loop"
          THEN << "LoopOpen" >> \o Flatten(head.body) \o << "LoopClose" >>
          ELSE << head.op >>) \o Flatten(Tail(instrs))

RECURSIVE WellFormed(_)
\* Every leaf is one of the six leaf instructions and has no children.
WellFormed(instrs) ==
    \A k \in 1..Len(instrs) :
        IF instrs[k].op = "Loop" THEN WellFormed(instrs[k].body)
        ELSE instrs[k].op \in LeafOps /\ instrs[k].body = << >>

RECURSIVE LeafCount(_)
\* The number of non-Loop instructions over all nesting levels.
LeafCount(instrs) ==
    IF instrs = << >> THEN 0
    ELSE (IF instrs[1].op = "Loop" THEN LeafCount(instrs[1].body) ELSE 1)
         + LeafCount(Tail(instrs))

OnlyRecognized(src) == \A k \in 1..Len(src) : src[k] \in Recognized

NonBrackets(src) == Cardinality({ k \in 1..Len(src) : src[k] \notin { "[", "]" } })

ParserDone == pc \notin { "lexer", "parser" }

StructuralError == pc = "panic" /\ panic.msg \in { NoBeginning, NoEnding }

NothingExecuted ==
    /\ tape = NoTape
    /\ data_pointer = 0
    /\ stack = << >>
    /\ stdout = << >>
    /\ stdin_pos = 0

----------------------------------------------------------------------------
(* The claims.                                                             *)

\* C1: a source whose tokens are not bracket-balanced never gets past the
\* parser: the process is still lexing or parsing or has panicked with a
\* structural error, and nothing of the run exists: no tape, no call of
\* run, no output, no input consumed.
C1_UnbalancedNeverRuns ==
    ~Balanced(lexer(source)) =>
        /\ pc \in { "lexer", "parser", "panic" }
        /\ pc = "panic" => StructuralError
        /\ NothingExecuted

\* C1 witness: `+.]` has panicked in the parser, its `+` and `.` unexecuted.
C1_Witness ==
    /\ source = << "+", ".", "]" >>
    /\ StructuralError
    /\ panic.at = 2
    /\ NothingExecuted

\* C2: in every state that has not aborted the cursor is a valid index of
\* the tape (a pointer move that leaves 0..24575 aborts at once).
C2_CursorStaysInRange ==
    pc \in { "run", "done" } => data_pointer \in 0..(TapeLen - 1)

\* C3 as stated: scenario 1 ends with the output `A` (65).
C3_ScenarioPrintsA ==
    (source = Scenario1 /\ pc = "done") => stdout = << 65 >>

\* C3 as amended: scenario 1 never panics, prints nothing but one `H` (72),
\* which is its whole output when it ends, and it does end.
C3_ScenarioPrintsH ==
    /\ [](source = Scenario1 =>
             /\ pc # "panic"
             /\ stdout \in { << >>, << 72 >> }
             /\ pc = "done" => stdout = << 72 >>)
    /\ (source = Scenario1 /\ pc = "run") ~> (pc = "done")

\* C3 witness: scenario 1 has ended with its output written.
C3_Witness == source = Scenario1 /\ pc = "done" /\ Len(stdout) = 1

\* C4: once the parser has run, it has panicked with a structural error
\* exactly when the tokens are not bracket-balanced and returned a tree
\* exactly when they are; an unmatched `]` and an unmatched `[` each make it
\* panic.
C4_ErrorIffUnbalanced ==
    ParserDone =>
        /\ Balanced(tokens) <=> pc = "main"
        /\ ~Balanced(tokens) <=> StructuralError
        /\ HasUnmatchedClose(tokens) => StructuralError
        /\ HasUnmatchedOpen(tokens) => StructuralError

\* C4 witness: `[[]][+`, a balanced nest followed by an unmatched `[`, has
\* been rejected.
C4_Witness ==
    /\ source = << "[", "[", "]", "]", "[", "+" >>
    /\ StructuralError
    /\ HasUnmatchedOpen(tokens)
    /\ ~HasUnmatchedClose(tokens)

\* C5: for a bracket-balanced token sequence the parser returns a tree that
\* flattens to exactly that sequence, and none of its leaves is a bracket.
C5_FlattenIsTokens ==
    (ParserDone /\ Balanced(tokens)) =>
        /\ pc = "main"
        /\ Flatten(instructions) = tokens
        /\ WellFormed(instructions)

\* C5 witness: `[+[+]]` has been parsed into a Loop holding a Loop.
C5_Witness ==
    /\ pc = "main"
    /\ tokens = << "LoopOpen", "Increment", "LoopOpen", "Increment",
                   "LoopClose", "LoopClose" >>
    /\ Len(instructions) = 1
    /\ Len(instructions[1].body) = 2

\* C6 as stated: for every source of recognized characters only, lexer and
\* parser return a tree with as many leaves as the source has non-bracket
\* characters.
C6_LeafCountAllSources ==
    (ParserDone /\ OnlyRecognized(source)) =>
        pc = "main" /\ LeafCount(instructions) = NonBrackets(source)

\* C6 as amended: the same for the sources whose brackets are balanced, the
\* ones the parser returns a tree for.
C6_LeafCountBalanced ==
    (ParserDone /\ OnlyRecognized(source) /\ Balanced(lexer(source))) =>
        pc = "main" /\ LeafCount(instructions) = NonBrackets(source)

\* C6 witness: `+[[+]]` has been parsed into a tree of two leaves, one of
\* them two loops deep.
C6_Witness ==
    /\ pc = "main"
    /\ source = << "+", "[", "[", "+", "]", "]" >>
    /\ LeafCount(instructions) = 2

\* The innermost call of run after its for loop has moved on by one.
Advanced == [stack EXCEPT ![Len(stack)].ip = @ + 1]

\* The stack after the innermost call of run has returned.
Returned == SubSeq(stack, 1, Len(stack) - 1)

\* C7: a Loop is left, and its body entered, on a test of the cell at the
\* cursor alone.  (a) A call of run is pushed only by a Loop whose cell is
\* nonzero, and it is the call of that Loop's body; (b) a Loop whose cell
\* is nonzero enters its body; (c) a Loop whose cell is zero moves on to
\* the next instruction with tape, cursor, output and input as they were;
\* (d) whenever the for loop moves past a Loop the cell at the cursor is
\* zero; (e) when a body returns, control is back at its Loop, whose test
\* is the next step.
C7_LoopTestsBeforeEntry ==
    /\ [][(pc = "run" /\ Len(stack') > Len(stack)) =>
             /\ Executing("Loop")
             /\ Cell(tape, data_pointer) # 0
             /\ stack' = Append(stack, Frame(Cur.body))]_vars
    /\ [][(Executing("Loop") /\ InBounds(data_pointer)
              /\ Cell(tape, data_pointer) # 0) =>
             /\ stack' = Append(stack, Frame(Cur.body))
             /\ UNCHANGED << tape, data_pointer, stdout, stdin_pos, pc >>]_vars
    /\ [][(Executing("Loop") /\ InBounds(data_pointer)
              /\ Cell(tape, data_pointer) = 0) =>
             /\ stack' = Advanced
             /\ UNCHANGED << tape, data_pointer, stdout, stdin_pos, pc >>]_vars
    /\ [][(Executing("Loop") /\ stack' = Advanced) =>
             Cell(tape', data_pointer') = 0]_vars
    /\ [][(Running /\ ~AtInstruction /\ Len(stack) > 1) =>
             /\ stack' = Returned
             /\ Executing("Loop")'
             /\ UNCHANGED << tape, data_pointer, stdout, stdin_pos, pc >>]_vars

\* C7 witness: the body of the Loop of `+[-]` has run once and brought the
\* cell to zero; the test that follows leaves the Loop.
C7_Witness ==
    /\ source = << "+", "[", "-", "]" >>
    /\ Running
    /\ Len(stack) = 2
    /\ ~AtInstruction
    /\ Cell(tape, data_pointer) = 0

\* C8: every cell of the tape is a byte; a cell-increment on a cell of the
\* tape leaves v + 1 modulo 256 in it and a cell-decrement v - 1 modulo
\* 256, and the run goes on whatever v is.
C8_CellsWrap ==
    /\ [](\A i \in DOMAIN tape.cells : tape.cells[i] \in 0..255)
    /\ [][(Executing("Increment") /\ InBounds(data_pointer)) =>
             /\ pc' = "run"
             /\ Cell(tape', data_pointer) = (Cell(tape, data_pointer) + 1) % 256
             /\ Cell(tape, data_pointer) = 255 => Cell(tape', data_pointer) = 0
         ]_vars
    /\ [][(Executing("Decrement") /\ InBounds(data_pointer)) =>
             /\ pc' = "run"
             /\ Cell(tape', data_pointer) = (Cell(tape, data_pointer) - 1) % 256
             /\ Cell(tape, data_pointer) = 0 => Cell(tape', data_pointer) = 255
         ]_vars

\* C8 witness: `-+` has ended: the cell went from 0 to 255 and back to 0.
C8_Witness ==
    /\ source = << "-", "+" >>
    /\ pc = "done"
    /\ tape = ZeroTape

\* C9: an input instruction executed with a byte unread consumes one byte,
\* the first unread one, and, the cursor being on a cell of the tape,
\* leaves it in that cell and the run goes on; `,.` with at least one byte
\* of input never panics, ends, and has then printed its first input byte
\* and consumed one byte.
C9_InputStoresNextByte ==
    /\ [][(Executing("Input") /\ stdin_pos < Len(stdin)) =>
             /\ stdin_pos' = stdin_pos + 1
             /\ stdin' = stdin
             /\ InBounds(data_pointer) =>
                   /\ Cell(tape', data_pointer) = stdin[stdin_pos + 1]
                   /\ pc' = "run"]_vars
    /\ []((source = << ",", "." >> /\ Len(stdin) >= 1) =>
             /\ pc # "panic"
             /\ pc = "done" => stdout = << stdin[1] >> /\ stdin_pos = 1)
    /\ (source = << ",", "." >> /\ Len(stdin) >= 1 /\ pc = "run")
          ~> (pc = "done")

\* C9 witness: `,.` has ended on the input 0x41 0x00: `A` is printed and the
\* second byte is still unread.
C9_Witness ==
    /\ source = << ",", "." >>
    /\ stdin = << 65, 0 >>
    /\ pc = "done"
    /\ stdout = << 65 >>
    /\ stdin_pos = 1

\* C10: an input instruction executed with no byte unread panics with
\* "failed to read stdin" and leaves tape, cursor, output and the count of
\* consumed bytes as they were; no step follows a panic.
C10_InputAtEofAborts ==
    /\ [][(Executing("Input") /\ stdin_pos >= Len(stdin)) =>
             /\ pc' = "panic"
             /\ panic'.msg = ReadFailed
             /\ UNCHANGED << tape, data_pointer, stdout, stdin_pos >>]_vars
    /\ [][pc # "panic"]_vars

\* C10 witness: `,-.,` on the one byte 0x41 has panicked at its second
\* input with the cell still 0x40.
C10_Witness ==
    /\ source = << ",", "-", ".", "," >>
    /\ pc = "panic"
    /\ panic.msg = ReadFailed
    /\ stdin_pos = 1
    /\ Cell(tape, data_pointer) = 64

----------------------------------------------------------------------------
(* C11: the output stream.                                                 *)

\* old is a prefix of new.
IsPrefix(old, new) ==
    /\ Len(old) <= Len(new)
    /\ SubSeq(new, 1, Len(old)) = old

RuntimeFault ==
    /\ pc = "panic"
    /\ panic.msg \in { IndexOutOfBounds, AddOverflow, SubOverflow, ReadFailed }

\* C11: the output is append-only and in execution order.  (a) An output
\* instruction executed on a cell of the tape appends exactly one
\* character, whose code is the value of the cell at the cursor at that
\* moment, and the run goes on; (b) no step other than an output
\* instruction changes the output; (c) every step keeps the output so far
\* as a prefix; (d) the step that aborts the run with a runtime error
\* (index out of bounds, pointer overflow, failed read) leaves the output
\* as it was, and nothing follows it, so the final output begins with
\* everything printed before the fault.
C11_OutputAppendOnly ==
    [][ /\ (Executing("Output") /\ InBounds(data_pointer)) =>
              /\ Len(stdout') = Len(stdout) + 1
              /\ stdout' = stdout \o << Cell(tape, data_pointer) >>
              /\ pc' = "run"
        /\ stdout' # stdout => Executing("Output")
        /\ IsPrefix(stdout, stdout')
        /\ pc' = "panic" => stdout' = stdout
        /\ pc \in { "panic", "done" } => vars' = vars
      ]_vars

\* `+.,.` on an empty stream that has ended: the 1 printed before the read
\* failed is the whole output of the aborted run.
C11_Witness ==
    /\ source = << "+", ".", ",", "." >>
    /\ RuntimeFault
    /\ panic.msg = ReadFailed
    /\ stdout = << 1 >>

----------------------------------------------------------------------------
(* C12: the lexer, and a source without instructions.                      *)

\* The token of each recognized character, as the specification names it.
SymbolToken ==
    [c \in Recognized |->
        CASE c = ">" -> "IncrementPointer"
          [] c = "<" -> "DecrementPointer"
          [] c = "+" -> "Increment"
          [] c = "-" -> "Decrement"
          [] c = "." -> "Output"
          [] c = "," -> "Input"
          [] c = "[" -> "LoopOpen"
          [] c = "]" -> "LoopClose"]

RECURSIVE ExpectedTokens(_)

\* The recognized characters of src in source order, each as its token.
ExpectedTokens(src) ==
    IF src = << >> THEN << >>
    ELSE (IF Head(src) \in Recognized THEN << SymbolToken[Head(src)] >>
          ELSE << >>) \o ExpectedTokens(Tail(src))

NoRecognized(src) == \A k \in 1..Len(src) : src[k] \notin Recognized

Lexed == pc # "lexer"

\* C12: (a) the lexer never fails: its step always hands a token sequence
\* to the parser; (b) the sequence is the recognized characters of the
\* source in source order, each as its own token, eight distinct tokens
\* for the eight characters, and nothing for any other character; (c) a
\* source without a recognized character lexes to no token and parses to
\* no instruction without a structural error, and its run prints nothing,
\* reads nothing, keeps the tape all zero and the cursor at 12288, and
\* (d) ends cleanly.
C12_LexerKeepsRecognized ==
    /\ [][pc = "lexer" => (pc' = "parser" /\ panic' = NoPanic)]_vars
    /\ [](Lexed => tokens = ExpectedTokens(source))
    /\ [](Cardinality({ SymbolToken[c] : c \in Recognized }) = 8)
    /\ []((Lexed /\ NoRecognized(source)) =>
              /\ tokens = << >>
              /\ instructions = << >>
              /\ pc # "panic"
              /\ stdout = << >>
              /\ stdin_pos = 0
              /\ pc \in { "run", "done" } =>
                    /\ tape = [len |-> 24576, cells |-> << >>]
                    /\ data_pointer = 12288)
    /\ (pc = "run" /\ NoRecognized(source)) ~> (pc = "done")

\* `###` has ended cleanly without a token, an instruction or an output.
C12_Witness ==
    /\ source = << "#", "#", "#" >>
    /\ pc = "done"
    /\ tokens = << >>
    /\ stdout = << >>

----------------------------------------------------------------------------
(* C13: the tape.                                                          *)

\* run has been called: it is executing, has returned, or has panicked.
RunEntered == pc \in { "run", "done" } \/ RuntimeFault

\* C13: (a) the step that starts execution hands run a tape of exactly
\* 24576 cells, all zero, and the cursor 12288; (b) in every state from
\* there on (executing, ended, or aborted by a runtime error) the tape has
\* 24576 cells, its nonzero cells lie at indices 0..24575, and (c) no step
\* of the run changes the length.
C13_TapeLength ==
    /\ [][pc = "main" =>
              /\ pc' = "run"
              /\ tape' = [len |-> 24576, cells |-> << >>]
              /\ data_pointer' = 12288]_vars
    /\ [](RunEntered =>
              /\ tape.len = 24576
              /\ DOMAIN tape.cells \subseteq 0..24575)
    /\ [][RunEntered => tape'.len = tape.len]_vars

\* Scenario 1 has ended with several cells written and the length kept.
C13_Witness ==
    /\ source = Scenario1
    /\ pc = "done"
    /\ tape.len = 24576
    /\ Cardinality(DOMAIN tape.cells) >= 3

----------------------------------------------------------------------------
(* C15: the position named in a structural error.                          *)

\* The `]` at position k has no earlier `[` to match, and is the first.
LeftmostUnmatchedClose(toks, k) ==
    /\ toks[k] = "LoopClose"
    /\ Depth(toks, k) < 0
    /\ \A j \in 1..(k - 1) : Depth(toks, j) >= 0

\* The `[` at position k has no later `]` to match, and is the first.
LeftmostUnmatchedOpen(toks, k) ==
    /\ UnmatchedOpenAt(toks, k)
    /\ \A j \in 1..(k - 1) : ~UnmatchedOpenAt(toks, j)

\* C15: the position of a structural error is a 0-based index into the
\* whole token sequence (the characters the lexer dropped do not count).
\* (a) In an unmatched-close error it is the index of the leftmost `]`
\* without a matching `[`; (b) in an unmatched-open error it is the index
\* of the leftmost `[` without a matching `]`; (c) a sequence with an
\* unmatched `]`, with or without an unmatched `[` as well, gets the
\* unmatched-close error, and (d) one with unmatched `[` only gets the
\* unmatched-open error.
C15_ErrorPosition ==
    /\ StructuralError =>
          /\ panic.at \in 0..(Len(tokens) - 1)
          /\ panic.msg = NoBeginning =>
                LeftmostUnmatchedClose(tokens, panic.at + 1)
          /\ panic.msg = NoEnding =>
                LeftmostUnmatchedOpen(tokens, panic.at + 1)
    /\ (ParserDone /\ HasUnmatchedClose(tokens)) =>
          (StructuralError /\ panic.msg = NoBeginning)
    /\ (ParserDone /\ HasUnmatchedOpen(tokens)
           /\ ~HasUnmatchedClose(tokens)) =>
          (StructuralError /\ panic.msg = NoEnding)

\* `#[+][[`: the error names token 3, the second `[` at depth zero, which
\* is character 4 of the source.
C15_Witness ==
    /\ source = << "#", "[", "+", "]", "[", "[" >>
    /\ StructuralError
    /\ panic.msg = NoEnding
    /\ panic.at = 3

----------------------------------------------------------------------------
(* C16: the recursion of the parser.                                       *)

\* C16: once the parser has run, (a) every token span that the top-level
\* call or a call below it handed to a recursive call is bracket-balanced;
\* (b) no panic came out of a recursive call, so a structural error is the
\* top-level call's own; (c) at a structural error the instructions built
\* so far are exactly the tokens before the offending bracket: no Loop
\* that would contain that bracket has been built.
C16_RecursiveSpansBalanced ==
    ParserDone =>
        LET st == parserCall(tokens) IN
        /\ \A span \in st.spans : Balanced(span)
        /\ ~st.nested
        /\ StructuralError <=> st.panic # NoPanic
        /\ StructuralError =>
              /\ panic = st.panic
              /\ Flatten(st.instructions) = SubSeq(tokens, 1, panic.at)

\* `[[+]]]`: two recursive calls, on `[+]` and on `+`, then the error at
\* the last bracket.
C16_Witness ==
    /\ source = << "[", "[", "+", "]", "]", "]" >>
    /\ StructuralError
    /\ panic.at = 5
    /\ parserCall(tokens).spans =
          { << "LoopOpen", "Increment", "LoopClose" >>, << "Increment" >> }

----------------------------------------------------------------------------
(* C17: what each non-loop instruction changes.                            *)

\* Every cell other than the one at index i is the same in t and u, and
\* so is the length.
SameElsewhere(t, u, i) ==
    /\ u.len = t.len
    /\ \A j \in (DOMAIN t.cells \cup DOMAIN u.cells) \ { i } :
          Cell(u, j) = Cell(t, j)

\* C17: (a) a pointer-increment that does not abort moves the cursor up
\* by exactly 1, a pointer-decrement down by exactly 1 (in usize
\* arithmetic: the one step between 0 and 2^64 - 1, written -1 here, is
\* the wrap of a release build), and both leave the tape, the output and
\* the unread input as they were; (b) cell-increment, cell-decrement and
\* input leave the cursor, the output and every cell other than the one
\* at the cursor unchanged, and the first two leave the unread input
\* unchanged; (c) output leaves tape, cursor and unread input unchanged;
\* (d) a step that consumes input is an input instruction; (e) an
\* instruction that aborts changes none of tape, cursor and output.
C17_FrameEffects ==
    [][ /\ Executing("IncrementPointer") =>
              /\ pc' = "run" => data_pointer' = data_pointer + 1
              /\ tape' = tape /\ stdout' = stdout /\ stdin_pos' = stdin_pos
        /\ Executing("DecrementPointer") =>
              /\ pc' = "run" => data_pointer' = data_pointer - 1
              /\ tape' = tape /\ stdout' = stdout /\ stdin_pos' = stdin_pos
        /\ (Executing("Increment") \/ Executing("Decrement")) =>
              /\ SameElsewhere(tape, tape', data_pointer)
              /\ data_pointer' = data_pointer
              /\ stdout' = stdout /\ stdin_pos' = stdin_pos
        /\ Executing("Input") =>
              /\ SameElsewhere(tape, tape', data_pointer)
              /\ data_pointer' = data_pointer
              /\ stdout' = stdout
        /\ Executing("Output") =>
              /\ tape' = tape
              /\ data_pointer' = data_pointer
              /\ stdin_pos' = stdin_pos
        /\ stdin_pos' # stdin_pos =>
              (Executing("Input") /\ stdin_pos' = stdin_pos + 1)
        /\ stdin' = stdin
        /\ (pc = "run" /\ pc' = "panic") =>
              /\ tape' = tape
              /\ data_pointer' = data_pointer
              /\ stdout' = stdout
      ]_vars

\* `+[>]+.` has ended: the cursor one cell to the right, the two cells
\* written each holding 1, one character printed, nothing read.
C17_Witness ==
    /\ source = << "+", "[", ">", "]", "+", "." >>
    /\ pc = "done"
    /\ data_pointer = InitialPointer + 1
    /\ Cell(tape, InitialPointer) = 1
    /\ Cell(tape, InitialPointer + 1) = 1
    /\ stdout = << 1 >>
    /\ stdin_pos = 0

----------------------------------------------------------------------------
(* C18: termination.                                                       *)

LoopFree(instrs) == \A k \in 1..Len(instrs) : instrs[k].op # "Loop"

Finished == pc \in { "done", "panic" }

\* The process is inside read_exact on a stream that stays open and has
\* nothing more to give.
AwaitingInput == Executing("Input") /\ Blocked(stdin_pos)

\* Programs whose loop is entered with a nonzero cell and whose body
\* neither faults nor brings the tested cell to zero.
NeverEnding ==
    { << "+", "[", "]" >>,
      << "+", "[", ">", "+", "<", "]" >> }

\* C18 as stated, first half: a run of a program without a Loop always
\* has a next step until it has finished, so that it does finish.
C18_LoopFreeAlwaysFinishes ==
    (pc = "run" /\ LoopFree(instructions)) => ENABLED Run

\* C18, amended: loops and inputs that wait for a byte are the only
\* sources of non-termination.  (a) A run of a program without a Loop
\* stays in the one call of run and each step either moves on to the next
\* instruction or ends the run, so each instruction is executed at most
\* once; (b) such a run can always take a step unless it is waiting at an
\* input instruction for a byte on a stream that stays open and silent,
\* and (c) it finishes, cleanly or by a fatal error, or comes to wait
\* there; (d) a program like `+[]` never finishes cleanly, never reaches
\* an error, (e) can always take a step and (f) tests its loop with a
\* nonzero cell again and again.
C18_LoopsAndInputsOnly ==
    /\ [][(pc = "run" /\ LoopFree(instructions)) =>
              /\ Len(stack) = 1
              /\ \/ pc' \in { "done", "panic" }
                 \/ /\ pc' = "run"
                    /\ Len(stack') = 1
                    /\ Top'.ip = Top.ip + 1]_vars
    /\ []((pc = "run" /\ LoopFree(instructions) /\ ~AwaitingInput) =>
              ENABLED Run)
    /\ (pc = "run" /\ LoopFree(instructions)) ~> (Finished \/ AwaitingInput)
    /\ [](source \in NeverEnding => ~Finished)
    /\ []((source \in NeverEnding /\ pc = "run") => ENABLED Run)
    /\ (source \in NeverEnding /\ pc = "run") ~>
          (Executing("Loop") /\ Cell(tape, data_pointer) # 0)

\* `+[>+<]` is testing its loop for the 256th time: the cell to the right
\* has gone up to 255 and the tested cell is still 1.
C18_Witness ==
    /\ source = << "+", "[", ">", "+", "<", "]" >>
    /\ Executing("Loop")
    /\ Cell(tape, data_pointer) = 1
    /\ Cell(tape, data_pointer + 1) = 255
====
